---------------------------- MODULE Spec2Model ----------------------------
(***************************************************************************)
(* A model of final.py: the Eligibility classifier and record loader, the  *)
(* Zipcode tables with get_latlng / nearest / get_dist, main, and the age  *)
(* binning of graphyes / graphno.                                          *)
(*                                                                         *)
(* Python strings are sequences of one-character strings, so that strip(), *)
(* split(), int() and float() are computed as the code computes them.      *)
(* Python dicts are sequences of <<key, value>> pairs in insertion order.  *)
(***************************************************************************)
EXTENDS Integers, Sequences, FiniteSets, TLC

VARIABLES
    pc,         \* control point of the running operation
    call,       \* the last direct method call: its arguments and its result
    info,       \* Eligibility.info
    recfile,    \* the lines of the records file consumed so far
    out,        \* what has been printed, in order
    trace,      \* the Zipcode methods invoked so far, in order
    zipcodes,           \* Zipcode.zipcodes
    zipfile,            \* the lines of the zip file consumed so far
    vaccine_locations,  \* Zipcode.vaccine_locations
    sitefile,           \* the lines of the site file consumed so far
    p1,                 \* nearest: the query coordinate
    idx,                \* nearest: the next entry the loop visits
    nearest_distance,   \* nearest: the local of line 160
    nearest_name,       \* nearest: the local of line 161
    df                  \* graphyes / graphno: the rows and their age group

eligVars == <<info, recfile>>
zipVars == <<zipcodes, zipfile, vaccine_locations, sitefile>>
scanVars == <<p1, idx, nearest_distance, nearest_name>>

vars == <<pc, call, out, trace, eligVars, zipVars, scanVars, df>>

NoCall == [fn |-> "none"]

\* sys.float_info.max: above every distance
FloatMax == 2000000000

NoEligibility == info = <<>> /\ recfile = <<>>

NoZipcode ==
    /\ zipcodes = <<>>
    /\ zipfile = <<>>
    /\ vaccine_locations = <<>>
    /\ sitefile = <<>>

NoScan ==
    /\ p1 = <<0, 0>>
    /\ idx = 0
    /\ nearest_distance = FloatMax
    /\ nearest_name = <<>>

NoGraph == df = <<>>

-----------------------------------------------------------------------------
(* Strings *)

Whitespace == {" ", "\n", "\t"}

DigitChars == {"0", "1", "2", "3", "4", "5", "6", "7", "8", "9"}

DigitVal(c) ==
    CASE c = "0" -> 0 [] c = "1" -> 1 [] c = "2" -> 2 [] c = "3" -> 3
      [] c = "4" -> 4 [] c = "5" -> 5 [] c = "6" -> 6 [] c = "7" -> 7
      [] c = "8" -> 8 [] c = "9" -> 9

RECURSIVE lstrip(_)
lstrip(s) ==
    IF s # <<>> /\ Head(s) \in Whitespace THEN lstrip(Tail(s)) ELSE s

RECURSIVE rstrip(_)
rstrip(s) ==
    IF s # <<>> /\ s[Len(s)] \in Whitespace
    THEN rstrip(SubSeq(s, 1, Len(s) - 1))
    ELSE s

\* str.strip(): leading and trailing whitespace removed
strip(s) == rstrip(lstrip(s))

RECURSIVE SplitWs(_, _, _)
SplitWs(s, cur, acc) ==
    IF s = <<>>
    THEN IF cur = <<>> THEN acc ELSE Append(acc, cur)
    ELSE IF Head(s) \in Whitespace
         THEN SplitWs(Tail(s), <<>>, IF cur = <<>> THEN acc ELSE Append(acc, cur))
         ELSE SplitWs(Tail(s), Append(cur, Head(s)), acc)

\* str.split() with no separator: the maximal runs of non-whitespace
split(s) == SplitWs(s, <<>>, <<>>)

RECURSIVE SplitSep(_, _, _, _)
SplitSep(s, sep, cur, acc) ==
    IF s = <<>>
    THEN Append(acc, cur)
    ELSE IF Head(s) = sep
         THEN SplitSep(Tail(s), sep, <<>>, Append(acc, cur))
         ELSE SplitSep(Tail(s), sep, Append(cur, Head(s)), acc)

\* str.split(sep) for a one-character separator: empty parts are kept
split_on(s, sep) == SplitSep(s, sep, <<>>, <<>>)

RECURSIVE DigitsValue(_, _)
DigitsValue(s, acc) ==
    IF s = <<>> THEN acc ELSE DigitsValue(Tail(s), 10 * acc + DigitVal(Head(s)))

IsDigits(s) == s # <<>> /\ \A i \in 1..Len(s) : s[i] \in DigitChars

Unsigned(s) == IF s # <<>> /\ Head(s) \in {"-", "+"} THEN Tail(s) ELSE s

\* the strings int() / float() accept here: optional whitespace around an
\* optionally signed run of decimal digits
IsNumber(s) == IsDigits(Unsigned(strip(s)))

\* the value int() / float() give for such a string
NumberOf(s) ==
    LET t == strip(s)
        v == DigitsValue(Unsigned(t), 0)
    IN  IF Head(t) = "-" THEN 0 - v ELSE v

RECURSIVE Join(_, _)
\* parts joined by the separator string sep
Join(parts, sep) ==
    IF parts = <<>> THEN <<>>
    ELSE IF Len(parts) = 1 THEN parts[1]
    ELSE parts[1] \o sep \o Join(Tail(parts), sep)

-----------------------------------------------------------------------------
(* dict: a sequence of <<key, value>> in insertion order *)

DictKeys(d) == {d[i][1] : i \in 1..Len(d)}

DictHas(d, k) == k \in DictKeys(d)

DictIndex(d, k) == CHOOSE i \in 1..Len(d) : d[i][1] = k

DictGet(d, k) == d[DictIndex(d, k)][2]

\* d[k] = v: an existing key keeps its place, a new key goes last
DictSet(d, k, v) ==
    IF DictHas(d, k)
    THEN [d EXCEPT ![DictIndex(d, k)] = <<k, v>>]
    ELSE Append(d, <<k, v>>)

-----------------------------------------------------------------------------
(* Eligibility *)

yes == <<"y", "e", "s">>
no == <<"n", "o">>
Yes == <<"Y", "e", "s">>

doctor == <<"d", "o", "c", "t", "o", "r">>
nurse == <<"n", "u", "r", "s", "e">>
therapist == <<"t", "h", "e", "r", "a", "p", "i", "s", "t">>
cashier == <<"c", "a", "s", "h", "i", "e", "r">>
teacher == <<"t", "e", "a", "c", "h", "e", "r">>
clerk == <<"c", "l", "e", "r", "k">>

phase1 == <<"p", "h", "a", "s", "e", " ", "1">>
phase2 == <<"p", "h", "a", "s", "e", " ", "2">>
phase3 == <<"p", "h", "a", "s", "e", " ", "3">>

phase1_jobs == {doctor, nurse, therapist}
phase2_jobs == {cashier, teacher}

\* a slip that tests the phase 2 rule before the phase 1 rule
eligible_phase2_first(age, immunocompromised, job) ==
    IF immunocompromised = yes \/ job \in phase2_jobs THEN phase2
    ELSE IF age >= 60 \/ job \in phase1_jobs THEN phase1
    ELSE phase3

eligible(age, immunocompromised, job) ==
    IF age >= 60 \/ job \in phase1_jobs THEN phase1
    ELSE IF immunocompromised = yes \/ job \in phase2_jobs THEN phase2
    ELSE phase3

-----------------------------------------------------------------------------
(* Direct calls of Eligibility.eligible *)

MaxAge == 62

Jobs == {doctor, nurse, therapist, cashier, teacher, clerk}
ImmunoValues == {yes, no, Yes}

InitClassify ==
    /\ pc = "idle"
    /\ call = NoCall
    /\ out = <<>>
    /\ trace = <<>>
    /\ NoEligibility /\ NoZipcode /\ NoScan /\ NoGraph

CallEligible ==
    /\ pc = "idle"
    /\ \E age \in 0..MaxAge, immunocompromised \in ImmunoValues, job \in Jobs :
          call' = [fn |-> "eligible", age |-> age,
                   immunocompromised |-> immunocompromised, job |-> job,
                   result |-> eligible(age, immunocompromised, job)]
    /\ UNCHANGED <<pc, out, trace, eligVars, zipVars, scanVars, df>>

NextClassify == CallEligible

SpecClassify == InitClassify /\ [][NextClassify]_vars

\* C1: eligible returns the phase of the first matching row of the rule
\* table: phase 1 when age >= 60 or the job is doctor/nurse/therapist,
\* otherwise phase 2 when immunocompromised is "yes" or the job is
\* cashier/teacher, otherwise phase 3.
C1_RuleTable ==
    call.fn = "eligible" =>
        LET row1 == call.age >= 60 \/ call.job \in {doctor, nurse, therapist}
            row2 == call.immunocompromised = yes \/ call.job \in {cashier, teacher}
        IN  /\ row1 => call.result = phase1
            /\ (~row1 /\ row2) => call.result = phase2
            /\ (~row1 /\ ~row2) => call.result = phase3

\* a call that meets a phase 1 and a phase 2 condition and got phase 1
C1_Witness ==
    /\ call.fn = "eligible"
    /\ call.age >= 60
    /\ call.immunocompromised = yes
    /\ call.job = cashier
    /\ call.result = phase1

-----------------------------------------------------------------------------
(* Eligibility.__init__: the records file, one line at a time *)

MaxRecLines == 2

Amy == <<"A", "m", "y">>
Bob == <<"B", "o", "b">>
Zed == <<"Z", "e", "d">>

zip1 == <<"2", "1">>
zip2 == <<"2", "2">>

RecordLine(name, age, immunocompromised, job, preference, zipcode) ==
    Join(<<name, age, immunocompromised, job, preference, zipcode>>, <<" ">>)
        \o <<"\n">>

WellFormedRecordLines ==
    {RecordLine(n, a, i, j, yes, zip1) :
        n \in {Amy, Bob}, a \in {<<"3", "0">>, <<"6", "5">>},
        i \in {yes, no}, j \in {doctor, clerk}}
    \cup {<<" ">> \o Join(<<Amy, <<"0", "7">>, no, teacher, no, zip2>>, <<" ", " ">>)
            \o <<" ", "\n">>}

MalformedRecordLines ==
    { Join(<<Amy, <<"3", "0">>, no, clerk, yes>>, <<" ">>) \o <<"\n">>,
      RecordLine(Bob, <<"x">>, no, clerk, yes, zip1),
      <<"\n">> }

RecordLines == WellFormedRecordLines \cup MalformedRecordLines

\* lines 33-40 succeed: six fields at least, and an age int() accepts
RecordParses(line) ==
    LET line_data == split(strip(line))
    IN  Len(line_data) >= 6 /\ IsNumber(line_data[2])

\* the tuple of line 42 for the fields of one line
Individual(line_data) ==
    LET name == line_data[1]
        age == NumberOf(line_data[2])
        immunocompromised == line_data[3]
        job == line_data[4]
        preference == line_data[5]
        zipcode == line_data[6]
        phase == eligible(age, immunocompromised, job)
    IN  <<name, age, immunocompromised, job, preference, zipcode, phase>>

\* a slip that keeps the first record of a name instead of the last
StoreIndividualKeepFirst(d, line) ==
    LET line_data == split(strip(line))
    IN  IF DictHas(d, line_data[1]) THEN d
        ELSE DictSet(d, line_data[1], Individual(line_data))

\* lines 33-42 for one line: self.info[name] = (...)
StoreIndividual(d, line) ==
    LET line_data == split(strip(line))
    IN  DictSet(d, line_data[1], Individual(line_data))

\* __repr__: one "name phase\n" per entry, in iteration order
RECURSIVE Repr(_)
Repr(d) ==
    IF d = <<>> THEN <<>>
    ELSE LET name == d[1][1]
             person == d[1][2]
         IN  name \o <<" ">> \o person[7] \o <<"\n">> \o Repr(Tail(d))

InitEligibility ==
    /\ pc = "load"
    /\ call = NoCall
    /\ out = <<>>
    /\ trace = <<>>
    /\ NoEligibility /\ NoZipcode /\ NoScan /\ NoGraph

\* one iteration of the loop of line 32; a line that does not parse raises
ReadRecordLine(lines) ==
    /\ pc = "load"
    /\ Len(recfile) < MaxRecLines
    /\ \E line \in lines :
          /\ recfile' = Append(recfile, line)
          /\ IF RecordParses(line)
             THEN /\ info' = StoreIndividual(info, line)
                  /\ pc' = "load"
             ELSE /\ info' = info
                  /\ pc' = "error"
    /\ UNCHANGED <<call, out, trace, zipVars, scanVars, df>>

\* the file is exhausted: the constructor returns
EndOfRecords ==
    /\ pc = "load"
    /\ pc' = "ready"
    /\ UNCHANGED <<call, out, trace, eligVars, zipVars, scanVars, df>>

\* print(eligibility), lines 217-218
PrintEligibility ==
    /\ pc = "ready"
    /\ out = <<>>
    /\ out' = <<Repr(info)>>
    /\ UNCHANGED <<pc, call, trace, eligVars, zipVars, scanVars, df>>

\* name in eligibility.info, line 198
LookupName ==
    /\ pc = "ready"
    /\ \E name \in {Amy, Bob, Zed} :
          call' = [fn |-> "lookup", name |-> name, found |-> DictHas(info, name)]
    /\ UNCHANGED <<pc, out, trace, eligVars, zipVars, scanVars, df>>

NextEligibility ==
    \/ ReadRecordLine(RecordLines)
    \/ EndOfRecords
    \/ PrintEligibility
    \/ LookupName

SpecEligibility == InitEligibility /\ [][NextEligibility]_vars

NameOfLine(line) == split(strip(line))[1]

LastLineOf(file, name) ==
    file[CHOOSE k \in 1..Len(file) :
            /\ NameOfLine(file[k]) = name
            /\ \A m \in (k + 1)..Len(file) : NameOfLine(file[m]) # name]

\* C8: once the constructor has read a file of well-formed lines, info has
\* exactly one entry per distinct name of the file, the entry is the tuple
\* built from the last line carrying the name, with the phase eligible()
\* gives for that tuple's age, flag and job; __repr__ and a lookup leave
\* every entry as it is.
C8_LastOccurrenceWins ==
    pc = "ready" =>
        /\ DictKeys(info) = {NameOfLine(recfile[k]) : k \in 1..Len(recfile)}
        /\ Cardinality(DictKeys(info)) = Len(info)
        /\ \A i \in 1..Len(info) :
              LET person == info[i][2]
                  f == split(strip(LastLineOf(recfile, info[i][1])))
              IN  /\ person = <<f[1], NumberOf(f[2]), f[3], f[4], f[5], f[6],
                                eligible(NumberOf(f[2]), f[3], f[4])>>
                  /\ person[1] = info[i][1]
                  /\ person[7] = eligible(person[2], person[3], person[4])

\* a file with the same name on two lines of different phase has been
\* loaded and printed
C8_Witness ==
    /\ pc = "ready"
    /\ out # <<>>
    /\ Len(recfile) = 2
    /\ NameOfLine(recfile[1]) = NameOfLine(recfile[2])
    /\ Individual(split(strip(recfile[1])))[7] # Individual(split(strip(recfile[2])))[7]
    /\ Len(info) = 1

-----------------------------------------------------------------------------
(* Zipcode.__init__ *)

MaxZipLines == 2
MaxSiteLines == 3

zip3 == <<"2", "3">>

CsvLine(fields) == Join(fields, <<",">>) \o <<"\n">>

\* lines 121-124 succeed: three fields, and float() accepts lat and lng
ZipLineParses(i) ==
    LET parts == split_on(i, ",")
    IN  Len(parts) = 3 /\ IsNumber(parts[2]) /\ IsNumber(parts[3])

\* lines 120-125 for one line: the key is the field as split(",") left it,
\* the fields of the value are stripped
StoreZip(d, i) ==
    LET parts == split_on(i, ",")
        zip == parts[1]
        lat == parts[2]
        lng == parts[3]
        zipdict == [zip |-> strip(zip), lat |-> NumberOf(lat), lng |-> NumberOf(lng)]
    IN  DictSet(d, zip, zipdict)

\* lines 129-133 succeed: four fields, and float() accepts lat and lng
SiteLineParses(i) ==
    LET parts == split_on(i, ",")
    IN  Len(parts) = 4 /\ IsNumber(parts[3]) /\ IsNumber(parts[4])

\* lines 128-134 for one line
StoreSite(d, i) ==
    LET parts == split_on(i, ",")
        name == parts[1]
        zip == parts[2]
        lat == parts[3]
        lng == parts[4]
        location_dict == [name |-> strip(name), zip |-> strip(zip),
                          lat |-> NumberOf(lat), lng |-> NumberOf(lng)]
    IN  DictSet(d, name, location_dict)

\* one iteration of the loop of line 119; a line that does not parse raises
ReadZipLine(lines) ==
    /\ pc = "loadzips"
    /\ Len(zipfile) < MaxZipLines
    /\ \E i \in lines :
          /\ zipfile' = Append(zipfile, i)
          /\ IF ZipLineParses(i)
             THEN /\ zipcodes' = StoreZip(zipcodes, i)
                  /\ pc' = "loadzips"
             ELSE /\ zipcodes' = zipcodes
                  /\ pc' = "error"
    /\ UNCHANGED <<call, out, trace, eligVars, vaccine_locations, sitefile,
                   scanVars, df>>

\* file1 is exhausted; file2 is opened
EndOfZips ==
    /\ pc = "loadzips"
    /\ pc' = "loadsites"
    /\ UNCHANGED <<call, out, trace, eligVars, zipVars, scanVars, df>>

\* one iteration of the loop of line 127
ReadSiteLine(lines) ==
    /\ pc = "loadsites"
    /\ Len(sitefile) < MaxSiteLines
    /\ \E i \in lines :
          /\ sitefile' = Append(sitefile, i)
          /\ IF SiteLineParses(i)
             THEN /\ vaccine_locations' = StoreSite(vaccine_locations, i)
                  /\ pc' = "loadsites"
             ELSE /\ vaccine_locations' = vaccine_locations
                  /\ pc' = "error"
    /\ UNCHANGED <<call, out, trace, eligVars, zipcodes, zipfile, scanVars, df>>

\* file2 is exhausted: the constructor returns
EndOfSites ==
    /\ pc = "loadsites"
    /\ pc' = "zipready"
    /\ UNCHANGED <<call, out, trace, eligVars, zipVars, scanVars, df>>

-----------------------------------------------------------------------------
(* Zipcode.get_latlng *)

\* the outcome of a call that raised KeyError instead of returning a pair
KeyError == <<>>

\* a slip that answers a missing zip code with a default coordinate
get_latlng_or_default(d, zipcode) ==
    IF DictHas(d, zipcode)
    THEN <<DictGet(d, zipcode).lat, DictGet(d, zipcode).lng>>
    ELSE <<0, 0>>

\* lines 146-147: self.zipcodes[zipcode] raises KeyError on a missing key
get_latlng(d, zipcode) ==
    IF DictHas(d, zipcode)
    THEN LET zip == DictGet(d, zipcode)
         IN  <<zip.lat, zip.lng>>
    ELSE KeyError

-----------------------------------------------------------------------------
(* The zip table: Zipcode.__init__ on a zip file, then get_latlng calls *)

ZipLines ==
    {CsvLine(<<z, lat, lng>>) :
        z \in {zip1, zip2, zip1 \o <<" ">>},
        lat \in {<<" ", "0">>, <<" ", "1">>},
        lng \in {<<" ", "0">>, <<" ", "9">>}}
    \cup {CsvLine(<<zip1, <<" ", "0">>>>),
          CsvLine(<<zip1, <<" ", "x">>, <<" ", "0">>>>)}

InitZip ==
    /\ pc = "loadzips"
    /\ call = NoCall
    /\ out = <<>>
    /\ trace = <<>>
    /\ NoEligibility /\ NoZipcode /\ NoScan /\ NoGraph

\* a call of get_latlng on the loaded table
CallGetLatLng ==
    /\ pc = "zipready"
    /\ \E zipcode \in {zip1, zip2, zip3} :
          call' = [fn |-> "get_latlng", zipcode |-> zipcode,
                   result |-> get_latlng(zipcodes, zipcode)]
    /\ UNCHANGED <<pc, out, trace, eligVars, zipVars, scanVars, df>>

NextZip ==
    \/ ReadZipLine(ZipLines)
    \/ EndOfZips
    \/ EndOfSites
    \/ CallGetLatLng

SpecZip == InitZip /\ [][NextZip]_vars

ZipOfLine(i) == strip(split_on(i, ",")[1])

LastZipLineOf(file, z) ==
    file[CHOOSE k \in 1..Len(file) :
            /\ ZipOfLine(file[k]) = z
            /\ \A m \in (k + 1)..Len(file) : ZipOfLine(file[m]) # z]

\* C6: once the zip file is loaded, get_latlng succeeds for every zip code
\* of the file and returns the (lat, lng) parsed from the last line of that
\* zip code, whatever calls were made since.
C6_RoundTrip ==
    pc = "zipready" =>
        \A k \in 1..Len(zipfile) :
            LET z == ZipOfLine(zipfile[k])
                parts == split_on(LastZipLineOf(zipfile, z), ",")
            IN  /\ get_latlng(zipcodes, z) # KeyError
                /\ get_latlng(zipcodes, z) = <<NumberOf(parts[2]), NumberOf(parts[3])>>

-----------------------------------------------------------------------------
(* The two imported distance functions, on a grid of coordinates.          *)
(* A coordinate is <<lat, lng>> in grid steps. A distance is an integer    *)
(* count of thousandths of the last decimal place vincenty keeps, so that  *)
(* round(s, 6) is rounding to a multiple of 1000. One step of latitude is  *)
(* shorter than half that place; HalfTurn steps of longitude are half the  *)
(* way round.                                                              *)
(* An optional number is a sequence: <<>> is None, <<v>> is the value v.   *)

LatStep == 400
LngStep == 3000
HalfTurn == 9

None == <<>>

Abs(x) == IF x < 0 THEN 0 - x ELSE x

\* the length of the geodesic on the ellipsoid, before rounding
Geodesic(q1, q2) ==
    LatStep * Abs(q1[1] - q2[1]) + LngStep * Abs(q1[2] - q2[2])

\* the pairs on which vincenty's iteration does not converge: antipodes
Antipodal(q1, q2) ==
    q1[1] + q2[1] = 0 /\ Abs(q1[2] - q2[2]) = HalfTurn

\* kilometers to miles (MILES_PER_KILOMETER, to three places)
ToMiles(s) == (s * 621) \div 1000

\* round(s, 6)
Round6(s) == ((s + 500) \div 1000) * 1000

\* vincenty(point1, point2, miles): 0.0 for coincident points, None when
\* the iteration does not converge, else the rounded length
vincenty(point1, point2, miles) ==
    IF point1 = point2 THEN <<0>>
    ELSE IF Antipodal(point1, point2) THEN None
    ELSE LET s == Geodesic(point1, point2)
         IN  <<Round6(IF miles THEN ToMiles(s) ELSE s)>>

\* haversine(point1, point2, unit): the great-circle length on the sphere,
\* not rounded; it differs a little from the ellipsoid's
haversine(point1, point2, unit) ==
    LET d == (Geodesic(point1, point2) * 997) \div 1000
    IN  IF unit = "mi" THEN ToMiles(d) ELSE d

-----------------------------------------------------------------------------
(* Zipcode.get_dist *)

\* `not dist`: true of None and of 0.0
Falsy(dist) == dist = None \/ dist[1] = 0

\* whether line 184 runs
UsesFallback(q1, q2, miles) == Falsy(vincenty(q1, q2, miles))

get_dist(q1, q2, miles) ==
    LET dist == vincenty(q1, q2, miles)
    IN  IF Falsy(dist)
        THEN haversine(q1, q2, IF miles THEN "mi" ELSE "km")
        ELSE dist[1]

Coordinates == {<<lat, lng>> : lat \in {0, 1}, lng \in {0, 1, 2, 9}}

InitDist ==
    /\ pc = "idle"
    /\ call = NoCall
    /\ out = <<>>
    /\ trace = <<>>
    /\ NoEligibility /\ NoZipcode /\ NoScan /\ NoGraph

\* a call of get_dist
CallGetDist ==
    /\ pc = "idle"
    /\ \E q1 \in Coordinates, q2 \in Coordinates, miles \in BOOLEAN :
          call' = [fn |-> "get_dist", p1 |-> q1, p2 |-> q2, miles |-> miles,
                   primary |-> vincenty(q1, q2, miles),
                   fallback |-> UsesFallback(q1, q2, miles),
                   result |-> get_dist(q1, q2, miles)]
    /\ UNCHANGED <<pc, out, trace, eligVars, zipVars, scanVars, df>>

NextDist == CallGetDist

SpecDist == InitDist /\ [][NextDist]_vars

\* C10: get_dist returns the primary (vincenty) distance whenever vincenty
\* produces one, and computes the haversine fallback only when vincenty
\* produces none; the fallback is in the unit of the call.
C10_TwoTier ==
    call.fn = "get_dist" =>
        /\ call.primary # None => (call.result = call.primary[1] /\ ~call.fallback)
        /\ call.primary = None =>
              /\ call.fallback
              /\ call.result =
                    haversine(call.p1, call.p2, IF call.miles THEN "mi" ELSE "km")

-----------------------------------------------------------------------------
(* Zipcode.nearest: the loop of lines 162-168, one entry per step *)

\* line 160
InitialNearestDistance == FloatMax

\* a slip that turns the comparison round
Farther(distance, best) == distance > best

\* a slip that lets a later site at equal distance replace the best one
CloserOrEqual(distance, best) == distance <= best

\* line 166
Closer(distance, best) == distance < best

\* a slip that swaps the two coordinates
PointSwapped(location) == <<location.lng, location.lat>>

\* line 164
PointOf(location) == <<location.lat, location.lng>>

\* nearest(p1) is entered: lines 160-161
EnterNearest(q) ==
    /\ p1' = q
    /\ idx' = 1
    /\ nearest_distance' = InitialNearestDistance
    /\ nearest_name' = <<>>
    /\ trace' = Append(trace, "nearest")
    /\ pc' = "scan"

\* one iteration of the loop: lines 163-168
ScanStep ==
    /\ pc = "scan"
    /\ idx <= Len(vaccine_locations)
    /\ LET name == vaccine_locations[idx][1]
           location == vaccine_locations[idx][2]
           p2 == PointOf(location)
           distance == get_dist(p1, p2, FALSE)
       IN  /\ IF Closer(distance, nearest_distance)
              THEN /\ nearest_distance' = distance
                   /\ nearest_name' = name
              ELSE UNCHANGED <<nearest_distance, nearest_name>>
           /\ trace' = Append(trace, "get_dist")
    /\ idx' = idx + 1
    /\ UNCHANGED <<pc, call, out, p1, eligVars, zipVars, df>>

\* line 169
ReturnNearest ==
    /\ pc = "scan"
    /\ idx > Len(vaccine_locations)
    /\ call' = [fn |-> "nearest", p1 |-> p1, result |-> nearest_name]
    /\ pc' = "returned"
    /\ UNCHANGED <<out, trace, eligVars, zipVars, scanVars, df>>

-----------------------------------------------------------------------------
(* The locator: Zipcode.__init__ on a site file, then one nearest(p1) *)

SiteA == <<"A">>
SiteB == <<"B">>
SiteC == <<"C", " ">>

SiteLines ==
    {CsvLine(<<n, zip1, lat, lng>>) :
        n \in {SiteA, SiteB, SiteC},
        lat \in {<<" ", "0">>, <<" ", "1">>},
        lng \in {<<" ", "0">>, <<" ", "9">>}}
    \cup {CsvLine(<<SiteA, <<" ", "0">>, <<" ", "0">>>>)}

QueryCoordinates == {<<0, 0>>, <<1, 0>>, <<0, 1>>, <<0, 9>>}

InitLocator ==
    /\ pc = "loadzips"
    /\ call = NoCall
    /\ out = <<>>
    /\ trace = <<>>
    /\ NoEligibility /\ NoZipcode /\ NoScan /\ NoGraph

\* a call of nearest on the loaded table
CallNearest ==
    /\ pc = "zipready"
    /\ \E q \in QueryCoordinates : EnterNearest(q)
    /\ UNCHANGED <<call, out, eligVars, zipVars, df>>

NextLocator ==
    \/ EndOfZips
    \/ ReadSiteLine(SiteLines)
    \/ EndOfSites
    \/ CallNearest
    \/ ScanStep
    \/ ReturnNearest

SpecLocator == InitLocator /\ [][NextLocator]_vars

\* the stored coordinate of the j-th site and its distance to the query
SitePoint(j) == <<vaccine_locations[j][2].lat, vaccine_locations[j][2].lng>>
SiteDistance(j) == get_dist(p1, SitePoint(j), FALSE)
Sites == 1..Len(vaccine_locations)

\* C2: on a non-empty site table nearest returns a key of the table.
C2_ReturnsAKey ==
    (pc = "returned" /\ vaccine_locations # <<>>) =>
        call.result \in DictKeys(vaccine_locations)

\* nearest has returned on a table of three sites
C2_Witness ==
    /\ pc = "returned"
    /\ Len(vaccine_locations) = 3
    /\ call.result \in DictKeys(vaccine_locations)

\* C3 as stated: a query equal to the stored coordinate of a site s returns
\* the name of s, whatever other sites the table holds.
C3_CoincidentSite ==
    pc = "returned" =>
        \A j \in Sites : SitePoint(j) = p1 => call.result = vaccine_locations[j][1]

\* C3: a query equal to the stored coordinate of some site returns the
\* first site, in iteration order, at distance 0 from the query; that is
\* the site s itself when no earlier site is at distance 0.
C3_FirstCoincidentSite ==
    pc = "returned" =>
        \A j \in Sites :
            SitePoint(j) = p1 =>
                LET first == CHOOSE i \in Sites :
                                /\ SiteDistance(i) = 0
                                /\ \A m \in 1..(i - 1) : SiteDistance(m) # 0
                IN  /\ call.result = vaccine_locations[first][1]
                    /\ first <= j
                    /\ (\A m \in 1..(j - 1) : SiteDistance(m) # 0) => first = j

\* the query coincides with the second site, after a farther first site
C3_Witness ==
    /\ pc = "returned"
    /\ Len(vaccine_locations) >= 2
    /\ SitePoint(2) = p1
    /\ SitePoint(1) # p1
    /\ call.result = vaccine_locations[2][1]

\* C9: on a non-empty table nearest returns a site at the least distance
\* from the query, and of the sites at that distance the first in
\* iteration order.
C9_FirstMinimum ==
    (pc = "returned" /\ vaccine_locations # <<>>) =>
        \E r \in Sites :
            /\ call.result = vaccine_locations[r][1]
            /\ \A j \in Sites : SiteDistance(r) <= SiteDistance(j)
            /\ \A j \in 1..(r - 1) : SiteDistance(j) > SiteDistance(r)

\* two sites at different places are equally near, nearer than a third,
\* and the earlier of the two is returned
C9_Witness ==
    /\ pc = "returned"
    /\ Len(vaccine_locations) = 3
    /\ SiteDistance(2) = SiteDistance(3)
    /\ SitePoint(2) # SitePoint(3)
    /\ SiteDistance(1) > SiteDistance(2)
    /\ call.result = vaccine_locations[2][1]

-----------------------------------------------------------------------------
(* main, lines 187-205.  combined.Eligibility is taken to be the class     *)
(* Eligibility of this file.                                               *)

\* a slip in the text of the message
WrongMessage == <<"N", "o", "t", " ", "f", "o", "u", "n", "d">>

\* line 205
NotFoundMessage ==
    <<"N", "a", "m", "e", " ", "n", "o", "t", " ", "f", "o", "u", "n", "d">>

MainZipLines ==
    { CsvLine(<<zip1, <<" ", "0">>, <<" ", "0">>>>),
      CsvLine(<<zip2, <<" ", "0">>, <<" ", "9">>>>) }

MainSiteLines ==
    { CsvLine(<<SiteA, zip1, <<" ", "0">>, <<" ", "0">>>>),
      CsvLine(<<SiteB, zip2, <<" ", "1">>, <<" ", "9">>>>) }

MainRecordLines ==
    { RecordLine(Amy, <<"4", "5">>, no, doctor, yes, zip1),
      RecordLine(Bob, <<"3", "0">>, no, clerk, no, zip2) }

InitMain ==
    /\ pc = "loadzips"
    /\ call = NoCall
    /\ out = <<>>
    /\ trace = <<>>
    /\ NoEligibility /\ NoZipcode /\ NoScan /\ NoGraph

\* line 196 begins once line 195 has returned
MainOpenRecords ==
    /\ pc = "zipready"
    /\ pc' = "load"
    /\ UNCHANGED <<call, out, trace, eligVars, zipVars, scanVars, df>>

\* line 197
MainInput ==
    /\ pc = "ready"
    /\ \E name \in {Amy, Bob, Zed} : call' = [fn |-> "input", name |-> name]
    /\ pc' = "named"
    /\ UNCHANGED <<out, trace, eligVars, zipVars, scanVars, df>>

\* lines 198-202 when the name is a key: get_latlng raises, or nearest is
\* entered with its result
MainResolve ==
    /\ pc = "named"
    /\ DictHas(info, call.name)
    /\ LET person == DictGet(info, call.name)
           person_zipcode == person[6]
           q == get_latlng(zipcodes, person_zipcode)
       IN  IF q = KeyError
           THEN /\ trace' = Append(trace, "get_latlng")
                /\ pc' = "error"
                /\ UNCHANGED scanVars
           ELSE /\ p1' = q
                /\ idx' = 1
                /\ nearest_distance' = InitialNearestDistance
                /\ nearest_name' = <<>>
                /\ trace' = trace \o <<"get_latlng", "nearest">>
                /\ pc' = "scan"
    /\ UNCHANGED <<call, out, eligVars, zipVars, df>>

\* lines 204-205
MainNotFound ==
    /\ pc = "named"
    /\ ~DictHas(info, call.name)
    /\ out' = Append(out, NotFoundMessage)
    /\ pc' = "done"
    /\ UNCHANGED <<call, trace, eligVars, zipVars, scanVars, df>>

\* line 203
MainPrint ==
    /\ pc = "returned"
    /\ out' = Append(out, call.result)
    /\ pc' = "done"
    /\ UNCHANGED <<call, trace, eligVars, zipVars, scanVars, df>>

NextMain ==
    \/ ReadZipLine(MainZipLines)
    \/ EndOfZips
    \/ ReadSiteLine(MainSiteLines)
    \/ EndOfSites
    \/ MainOpenRecords
    \/ ReadRecordLine(MainRecordLines)
    \/ EndOfRecords
    \/ MainInput
    \/ MainResolve
    \/ MainNotFound
    \/ ScanStep
    \/ ReturnNearest
    \/ MainPrint

SpecMain == InitMain /\ [][NextMain]_vars

\* the name read by line 197, kept until nearest returns
InputRead == call.fn = "input"

\* C4: when the name read is no key of the records, main prints exactly
\* "Name not found", invokes none of get_latlng, nearest and get_dist, and
\* does not end in an error.
C4_UnknownName ==
    (InputRead /\ ~DictHas(info, call.name)) =>
        /\ pc \in {"named", "done"}
        /\ trace = <<>>
        /\ pc = "named" => out = <<>>
        /\ pc = "done" =>
              out = << <<"N", "a", "m", "e", " ", "n", "o", "t", " ",
                         "f", "o", "u", "n", "d">> >>

\* main has finished on a name the non-empty records do not hold
C4_Witness ==
    /\ InputRead
    /\ info # <<>>
    /\ ~DictHas(info, call.name)
    /\ pc = "done"
    /\ out = <<NotFoundMessage>>

\* C5: when the name read is a key of the records and the zip code of that
\* individual is no key of the zip table, get_latlng raises, main ends in
\* the error state, the scan of nearest is never started and nothing is
\* printed.
C5_UnknownZip ==
    (/\ InputRead
     /\ DictHas(info, call.name)
     /\ ~DictHas(zipcodes, DictGet(info, call.name)[6])) =>
        /\ pc \in {"named", "error"}
        /\ pc = "named" => trace = <<>>
        /\ pc = "error" => trace = <<"get_latlng">>
        /\ out = <<>>
        /\ idx = 0

\* main has ended in the error state on a known name whose zip code the
\* non-empty zip table does not hold
C5_Witness ==
    /\ InputRead
    /\ DictHas(info, call.name)
    /\ zipcodes # <<>>
    /\ vaccine_locations # <<>>
    /\ ~DictHas(zipcodes, DictGet(info, call.name)[6])
    /\ pc = "error"
    /\ trace = <<"get_latlng">>

-----------------------------------------------------------------------------
(* graphyes / graphno: the rows of the data frame and their age groups *)

MaxRows == 2

\* bins = [0, 25, 50, 75, 100]
bins == <<0, 25, 50, 75, 100>>

\* labels = ["18-24", "25-44", "45-64", "65-80"]
labels == <<"18-24", "25-44", "45-64", "65-80">>

NaN == "NaN"

\* pd.cut(x, bins, labels) with its defaults right=True and
\* include_lowest=False: the label of the interval (bins[g], bins[g+1]]
\* that holds x, and NaN when none does
cut(x) ==
    IF \E g \in 1..Len(labels) : bins[g] < x /\ x <= bins[g + 1]
    THEN labels[CHOOSE g \in 1..Len(labels) : bins[g] < x /\ x <= bins[g + 1]]
    ELSE NaN

GraphAges ==
    { <<"0">>, <<"1">>, <<"2", "4">>, <<"2", "5">>, <<"2", "6">>, <<"5", "0">>,
      <<"7", "5">>, <<"9", "9">>, <<"1", "0", "0">>, <<"1", "0", "1">>,
      <<"1", "0", "0", "0">> }

GraphLines ==
    {RecordLine(Amy, a, no, clerk, t, zip1) : a \in GraphAges, t \in {yes, no}}

\* line 248 for one line: the fields between single spaces, age as a number
Row(line) ==
    LET f == split_on(rstrip(line), " ")
    IN  [age |-> NumberOf(f[2]), take |-> f[5]]

\* lines 249-250 and the groupby of line 251: the rows kept, grouped by the
\* label cut gives their age; a row whose group is NaN is in no group
Groups(rows, take) ==
    [g \in {labels[k] : k \in 1..Len(labels)} |->
        {i \in 1..Len(rows) :
            /\ rows[i].age < 1000
            /\ rows[i].take = take
            /\ cut(rows[i].age) = g}]

\* line 251: count() of each group
GroupCounts(rows, take) ==
    [g \in {labels[k] : k \in 1..Len(labels)} |-> Cardinality(Groups(rows, take)[g])]

InitGraph ==
    /\ pc = "read_csv"
    /\ call = NoCall
    /\ out = <<>>
    /\ trace = <<>>
    /\ NoEligibility /\ NoZipcode /\ NoScan /\ NoGraph

\* pd.read_csv takes one more line of the file
ReadRow ==
    /\ pc = "read_csv"
    /\ Len(df) < MaxRows
    /\ \E line \in GraphLines : df' = Append(df, Row(line))
    /\ UNCHANGED <<pc, call, out, trace, eligVars, zipVars, scanVars>>

\* the file is exhausted
EndOfRows ==
    /\ pc = "read_csv"
    /\ pc' = "frame"
    /\ UNCHANGED <<call, out, trace, eligVars, zipVars, scanVars, df>>

graphyes ==
    /\ pc = "frame"
    /\ call' = [fn |-> "graphyes", groups |-> Groups(df, yes),
                immuno |-> GroupCounts(df, yes)]
    /\ UNCHANGED <<pc, out, trace, eligVars, zipVars, scanVars, df>>

graphno ==
    /\ pc = "frame"
    /\ call' = [fn |-> "graphno", groups |-> Groups(df, no),
                immuno |-> GroupCounts(df, no)]
    /\ UNCHANGED <<pc, out, trace, eligVars, zipVars, scanVars, df>>

NextGraph ==
    \/ ReadRow
    \/ EndOfRows
    \/ graphyes
    \/ graphno

SpecGraph == InitGraph /\ [][NextGraph]_vars

\* C7: every individual of age a, 0 <= a < 100, that a bar counts is
\* counted in the group whose bounds [0,25), [25,50), [50,75), [75,100)
\* satisfy lo <= a < hi.
C7_HalfOpenGroups ==
    call.fn \in {"graphyes", "graphno"} =>
        \A g \in 1..4 :
            /\ call.immuno[labels[g]] = Cardinality(call.groups[labels[g]])
            /\ \A i \in call.groups[labels[g]] :
                  (0 <= df[i].age /\ df[i].age < 100) =>
                      (bins[g] <= df[i].age /\ df[i].age < bins[g + 1])

=============================================================================
